---- MODULE Spec2Model ----
(***************************************************************************)
(* Lvalue lowering to MIR (svlog/mir/lower/lvalue.rs): the query           *)
(* mir_lvalue, the shape dispatch lower_expr_inner, cast insertion         *)
(* lower_cast and simple-bit-vector packing.                               *)
(*                                                                         *)
(* An expression is a HIR tree; the answers of the collaborator queries    *)
(* (hir_of, cast_type, resolve_node, compute_indexing, ...) for a node are *)
(* fields of that node, since each query is a function of (node, env).     *)
(* The old preprocessor (svlog/preproc-old.rs) is modelled next to it: a   *)
(* stack of lexers over the files of a small file system, the macro table  *)
(* and the outcome of the last next_token call.                            *)
(*                                                                         *)
(* A lowering returns a record [st, node, diags, built, log, depth]: st is  *)
(* "ok" (a node is returned), "err" (Result::Err inside lower_expr_inner)  *)
(* or "abort" (panic: bug_span!, assert_span!, assert_type!, unwrap on a   *)
(* failure); diags are the diagnostics emitted, built the nodes allocated, *)
(* log the lines written with error!, depth the number of nested           *)
(* activations of the recursive function that was called.                  *)
(***************************************************************************)
EXTENDS Integers, Sequences, FiniteSets, TLC

VARIABLES call, result, emitted, built, logged, depth, store, ncalls,
          source, stack, macros, returned

\* the state of the lvalue lowering and the state of the preprocessor
lvars == <<call, result, emitted, built, logged, depth, store, ncalls>>
pvars == <<source, stack, macros, returned>>

vars == <<lvars, pvars>>

(* ------------------------------ bounds --------------------------------- *)
\* largest bound of a declared dimension
MaxHi == 2
\* largest number of members of a struct type
MaxMembers == 2
\* largest number of operands of a source concatenation
MaxOperands == 2

\* largest number of queries made one after the other
MaxCalls == 2
\* largest number of tokens of the file handed to the preprocessor
MaxTokens == 3

(* ------------------------------ helpers -------------------------------- *)
RECURSIVE SumSeq(_)
SumSeq(s) == IF s = <<>> THEN 0 ELSE s[1] + SumSeq(Tail(s))

SeqsUpTo(S, n) == UNION {[1..m -> S] : m \in 1..n}

(* ------------------------------- types --------------------------------- *)
\* UnpackedType::make_error()
ErrTy == [k |-> "error"]

\* an integer vector (PackedCore::IntVec) with no or one packed dimension
VecTy(dom, sign, dims) == [k |-> "vec", dom |-> dom, sign |-> sign, dims |-> dims]

\* SbvType::new(domain, sign, size).to_unpacked(): the vector [size-1:0]
SbvTy(dom, sign, size) == VecTy(dom, sign, << <<size - 1, 0>> >>)

\* an array: one more (outermost) dimension [hi:lo] around elem
ArrTy(hi, lo, elem) == [k |-> "arr", hi |-> hi, lo |-> lo, elem |-> elem]

\* an array whose outermost dimension has no size (queue, dynamic array)
UnsizedTy(elem) == [k |-> "unsized", elem |-> elem]

\* the dimension of such an array
UnsizedDim == <<>>

\* a struct with the members in declaration order
StructTy(members) == [k |-> "struct", members |-> members]

\* an interface type, possibly restricted to a modport
IntfTy(modport) == [k |-> "intf", modport |-> modport]

is_error_ty(t) == t.k = "error"

get_interface(t) == t.k = "intf"

get_struct(t) == t.k = "struct"

DimSize(d) == d[1] - d[2] + 1

\* the dimensions of a type, outermost first
RECURSIVE dims(_)
dims(t) ==
    CASE t.k = "arr" -> << <<t.hi, t.lo>> >> \o dims(t.elem)
      [] t.k = "unsized" -> <<UnsizedDim>> \o dims(t.elem)
      [] t.k = "vec" -> t.dims
      [] OTHER -> <<>>

outermost_dim(t) == dims(t)

\* the type with its outermost dimension removed
pop_dim(t) ==
    CASE t.k \in {"arr", "unsized"} -> t.elem
      [] t.k = "vec" -> VecTy(t.dom, t.sign, Tail(t.dims))

\* the total number of bits of a type; -1 where the type has none
RECURSIVE get_bit_size(_)
get_bit_size(t) ==
    CASE t.k = "vec" -> IF t.dims = <<>> THEN 1 ELSE DimSize(t.dims[1])
      [] t.k = "arr" ->
            IF get_bit_size(t.elem) < 0 THEN -1
            ELSE DimSize(<<t.hi, t.lo>>) * get_bit_size(t.elem)
      [] t.k = "struct" ->
            IF \E i \in 1..Len(t.members) : get_bit_size(t.members[i]) < 0 THEN -1
            ELSE SumSeq([i \in 1..Len(t.members) |-> get_bit_size(t.members[i])])
      [] OTHER -> -1

\* four-valued as soon as one component is
RECURSIVE domain(_)
domain(t) ==
    CASE t.k = "vec" -> t.dom
      [] t.k = "arr" -> domain(t.elem)
      [] t.k = "struct" ->
            IF \E i \in 1..Len(t.members) : domain(t.members[i]) = "four"
            THEN "four" ELSE "two"
      [] OTHER -> "two"

sign_of(t) == IF t.k = "vec" THEN t.sign ELSE "unsigned"

\* a flat vector: an integer vector with at most one dimension
coalesces_to_llhd_scalar(t) == t.k = "vec"

is_simple_bit_vector(t) == t.k = "vec" /\ Len(t.dims) = 1 /\ t.dims[1][2] = 0

\* ty.simple_bit_vector(cx, span).forget().to_unpacked(cx)
simple_bit_vector(t) == SbvTy(domain(t), sign_of(t), get_bit_size(t))

is_identical(a, b) == a = b

(* ------------------------------- nodes --------------------------------- *)
\* Builder::build: a node is its type and the fields of its kind
build(ty, kind) == [ty |-> ty] @@ kind

\* value.kind.clone()
kind_of(n) == [f \in (DOMAIN n) \ {"ty"} |-> n[f]]

KError == [kind |-> "Error"]
KDecl(tag, decl) == [kind |-> tag, decl |-> decl]
KIntfSignal(value, member) == [kind |-> "IntfSignal", value |-> value, member |-> member]
KIndex(value, base, length) == [kind |-> "Index", value |-> value, base |-> base, length |-> length]
KMember(value, field) == [kind |-> "Member", value |-> value, field |-> field]
KConcat(ops) == [kind |-> "Concat", ops |-> ops]
KRepeat(count, value) == [kind |-> "Repeat", count |-> count, value |-> value]
KTransmute(value) == [kind |-> "Transmute", value |-> value]

\* Builder::error
error_node == build(ErrTy, KError)

\* Lvalue::is_error
is_error(n) == is_error_ty(n.ty) \/ n.kind = "Error"

\* rvalue_builder.build(int_ty, RvalueKind::Const(..)): a constant rvalue
RConst(v) == [rk |-> "Const", val |-> v]

NoNode == [kind |-> "none"]

\* outcomes of a lowering
Ok(n, d, b) ==
    [st |-> "ok", node |-> n, diags |-> d, built |-> b, log |-> <<>>, depth |-> 0]
Err(d, b) ==
    [st |-> "err", node |-> NoNode, diags |-> d, built |-> b, log |-> <<>>, depth |-> 0]
Abort(d, b) ==
    [st |-> "abort", node |-> NoNode, diags |-> d, built |-> b, log |-> <<>>, depth |-> 0]

RECURSIVE ConcatSeq(_)
ConcatSeq(ss) == IF ss = <<>> THEN <<>> ELSE ss[1] \o ConcatSeq(Tail(ss))

\* the deepest of the activations in ds
Deepest(ds) == IF ds = {} THEN 0 ELSE CHOOSE m \in ds : \A d \in ds : d <= m

\* r, returned by a function whose callees reached the depths ds
Calling(r, ds) == [r EXCEPT !.depth = Deepest(ds)]

\* r, returned after the recursive calls that returned subs, in that order
After(r, subs) ==
    [r EXCEPT !.log = ConcatSeq([i \in 1..Len(subs) |-> subs[i].log]),
              !.depth = Deepest({subs[i].depth : i \in 1..Len(subs)})]

\* the result x of a call, computed once, and what F does with it
Once(x, F(_)) == CHOOSE out \in {F(r) : r \in {x}} : TRUE

\* one more activation of the recursive function on the stack
Enter(r) == [r EXCEPT !.depth = @ + 1]

(* ------------------------------ packing -------------------------------- *)
RECURSIVE pack_simple_bit_vector(_), pack_struct(_, _, _), pack_array(_, _, _)

pack_simple_bit_vector(value) ==
    Enter(
    IF is_error(value) THEN Ok(value, <<>>, {})
    ELSE LET to == simple_bit_vector(value.ty) IN
         IF coalesces_to_llhd_scalar(value.ty)
         THEN LET n == build(to, KTransmute(value)) IN Ok(n, <<>>, {n})
         ELSE IF outermost_dim(value.ty) # <<>>
         THEN pack_array(value, outermost_dim(value.ty)[1], to)
         ELSE IF get_struct(value.ty)
         THEN pack_struct(value, value.ty.members, to)
         ELSE Abort(<<>>, {}))

\* the members packed in reverse declaration order
pack_struct_rev(value, members, to) ==
    LET n == Len(members)
        field_value == [i \in 1..n |-> build(members[i], KMember(value, i - 1))]
        packed == [i \in 1..n |-> pack_simple_bit_vector(field_value[i])]
        sub == {field_value[i] : i \in 1..n} \cup UNION {packed[i].built : i \in 1..n}
    IN  IF \E i \in 1..n : packed[i].st = "abort" THEN Abort(<<>>, sub)
        ELSE LET c == build(to, KConcat([i \in 1..n |-> packed[n + 1 - i].node]))
             IN  Ok(c, <<>>, sub \cup {c})

pack_struct(value, members, to) ==
    LET n == Len(members)
        field_value == [i \in 1..n |-> build(members[i], KMember(value, i - 1))]
        packed == [i \in 1..n |-> pack_simple_bit_vector(field_value[i])]
        sub == {field_value[i] : i \in 1..n} \cup UNION {packed[i].built : i \in 1..n}
        ds == {packed[i].depth : i \in 1..n}
    IN  IF \E i \in 1..n : packed[i].st = "abort" THEN Calling(Abort(<<>>, sub), ds)
        ELSE LET c == build(to, KConcat([i \in 1..n |-> packed[i].node]))
             IN  Calling(Ok(c, <<>>, sub \cup {c}), ds)

\* the elements packed from index 0 upwards
pack_array_fwd(value, dim, to) ==
    LET length == DimSize(dim)
        elem_ty == pop_dim(value.ty)
    IN  IF dim = UnsizedDim THEN Abort(<<>>, {})
        ELSE IF dims(elem_ty) = <<>> /\ elem_ty.k = "vec"
        THEN LET n == build(to, KTransmute(value)) IN Ok(n, <<>>, {n})
        ELSE LET elem == [p \in 1..length |->
                            build(elem_ty, KIndex(value, RConst(p - 1), 0))]
                 packed == [p \in 1..length |-> pack_simple_bit_vector(elem[p])]
                 sub == {elem[p] : p \in 1..length}
                          \cup UNION {packed[p].built : p \in 1..length}
             IN  IF \E p \in 1..length : packed[p].st = "abort" THEN Abort(<<>>, sub)
                 ELSE LET c == build(to, KConcat([p \in 1..length |-> packed[p].node]))
                      IN  Ok(c, <<>>, sub \cup {c})

\* the loop stops one element early
pack_array_short(value, dim, to) ==
    LET length == DimSize(dim) - 1
        elem_ty == pop_dim(value.ty)
    IN  IF dim = UnsizedDim THEN Abort(<<>>, {})
        ELSE IF dims(elem_ty) = <<>> /\ elem_ty.k = "vec"
        THEN LET n == build(to, KTransmute(value)) IN Ok(n, <<>>, {n})
        ELSE LET elem == [p \in 1..length |->
                            build(elem_ty, KIndex(value, RConst(length - p), 0))]
                 packed == [p \in 1..length |-> pack_simple_bit_vector(elem[p])]
                 sub == {elem[p] : p \in 1..length}
                          \cup UNION {packed[p].built : p \in 1..length}
             IN  IF \E p \in 1..length : packed[p].st = "abort" THEN Abort(<<>>, sub)
                 ELSE LET c == build(to, KConcat([p \in 1..length |-> packed[p].node]))
                      IN  Ok(c, <<>>, sub \cup {c})

\* the array is packed by taking off its topmost element and packing the
\* rest of the array, which is an array again and no component of it
pack_array_peel(value, dim, to) ==
    LET length == DimSize(dim)
        elem_ty == pop_dim(value.ty)
    IN  IF dim = UnsizedDim THEN Abort(<<>>, {})
        ELSE IF dims(elem_ty) = <<>> /\ elem_ty.k = "vec"
        THEN LET n == build(to, KTransmute(value)) IN Ok(n, <<>>, {n})
        ELSE LET head == build(elem_ty, KIndex(value, RConst(length - 1), 0))
                 rest == build(ArrTy(dim[1] - 1, dim[2], elem_ty),
                               KIndex(value, RConst(0), length - 1))
                 parts == IF length = 1 THEN <<head>> ELSE <<head, rest>>
                 packed == [p \in 1..Len(parts) |-> pack_simple_bit_vector(parts[p])]
                 sub == {parts[p] : p \in 1..Len(parts)}
                          \cup UNION {packed[p].built : p \in 1..Len(parts)}
                 ds == {packed[p].depth : p \in 1..Len(parts)}
             IN  IF \E p \in 1..Len(parts) : packed[p].st = "abort"
                 THEN Calling(Abort(<<>>, sub), ds)
                 ELSE LET c == build(to, KConcat([p \in 1..Len(parts) |-> packed[p].node]))
                      IN  Calling(Ok(c, <<>>, sub \cup {c}), ds)

pack_array(value, dim, to) ==
    LET length == DimSize(dim)
        elem_ty == pop_dim(value.ty)
    IN  IF dim = UnsizedDim THEN Abort(<<>>, {})
        ELSE IF dims(elem_ty) = <<>> /\ elem_ty.k = "vec"
        THEN LET n == build(to, KTransmute(value)) IN Ok(n, <<>>, {n})
        ELSE LET \* the loop runs i = length-1 down to 0; position p holds i = length - p
                 elem == [p \in 1..length |->
                            build(elem_ty, KIndex(value, RConst(length - p), 0))]
                 packed == [p \in 1..length |-> pack_simple_bit_vector(elem[p])]
                 sub == {elem[p] : p \in 1..length}
                          \cup UNION {packed[p].built : p \in 1..length}
                 ds == {packed[p].depth : p \in 1..length}
             IN  IF \E p \in 1..length : packed[p].st = "abort"
                 THEN Calling(Abort(<<>>, sub), ds)
                 ELSE LET c == build(to, KConcat([p \in 1..length |-> packed[p].node]))
                      IN  Calling(Ok(c, <<>>, sub \cup {c}), ds)

(* --------------------------- cast insertion ---------------------------- *)
\* CastType: the initial type, the steps (op, target) and the final type
CastTy(init, casts, ty) == [k |-> "cast", init |-> init, casts |-> casts, ty |-> ty]

\* CastType::is_error
cast_is_error(to) == is_error_ty(to.ty)

\* the lines written with error!
LogCastMismatch == "Cast should have produced"
LogHir == "hir"

\* the loop of lower_cast over the steps of the chain; a step whose result
\* type differs from its target is logged (error!) and the loop goes on
RECURSIVE cast_steps(_, _, _)

\* a step whose result type differs from its target ends the call
cast_steps_asserting(value, casts, acc) ==
    IF casts = <<>> THEN Ok(value, <<>>, acc)
    ELSE LET op == casts[1][1]
             to == casts[1][2]
             step == CASE op = "PackSBVT" ->
                            IF is_simple_bit_vector(to)
                            THEN pack_simple_bit_vector(value)
                            ELSE Abort(<<>>, {})
                       [] op = "PickModport" ->
                            LET n == build(to, kind_of(value)) IN Ok(n, <<>>, {n})
                       [] OTHER -> Abort(<<>>, {})
         IN  IF step.st = "abort" THEN Abort(<<>>, acc \cup step.built)
             ELSE IF ~is_identical(step.node.ty, to)
             THEN [Abort(<<>>, acc \cup step.built) EXCEPT !.log = <<LogCastMismatch>>]
             ELSE cast_steps(step.node, Tail(casts), acc \cup step.built)

cast_steps(value, casts, acc) ==
    IF casts = <<>> THEN Ok(value, <<>>, acc)
    ELSE LET op == casts[1][1]
             to == casts[1][2]
             step == CASE op = "PackSBVT" ->
                            IF is_simple_bit_vector(to)
                            THEN pack_simple_bit_vector(value)
                            ELSE Abort(<<>>, {})
                       [] op = "PickModport" ->
                            LET n == build(to, kind_of(value)) IN Ok(n, <<>>, {n})
                       [] OTHER -> Abort(<<>>, {})
         IN  IF step.st = "abort" THEN Abort(<<>>, acc \cup step.built)
             ELSE LET line == IF is_identical(step.node.ty, to) THEN <<>>
                              ELSE <<LogCastMismatch>>
                      rest == cast_steps(step.node, Tail(casts), acc \cup step.built)
                  IN  [rest EXCEPT !.log = line \o @]

\* the final type of the chain is not checked
lower_cast_unchecked(value, to) ==
    IF is_error(value) THEN Ok(value, <<>>, {})
    ELSE IF cast_is_error(to) THEN Ok(error_node, <<>>, {error_node})
    ELSE IF ~is_identical(value.ty, to.init) THEN Abort(<<>>, {})
    ELSE cast_steps(value, to.casts, {})

lower_cast(value, to) ==
    IF is_error(value) THEN Ok(value, <<>>, {})
    ELSE IF cast_is_error(to) THEN Ok(error_node, <<>>, {error_node})
    ELSE IF ~is_identical(value.ty, to.init) THEN Abort(<<>>, {})
    ELSE LET r == cast_steps(value, to.casts, {})
         IN  IF r.st = "abort" THEN r
             ELSE IF ~is_identical(r.node.ty, to.ty)
             THEN [Abort(<<>>, r.built) EXCEPT !.log = r.log]
             ELSE r

(* ------------------------- lvalue lowering ----------------------------- *)
DiagNotTarget == "cannot be used as the target of an assignment"
DiagNotAssignable == "cannot be assigned to"

\* lower::rvalue::adjust_indexing: the offset made zero-relative to dim
adjust_indexing(base, dim) ==
    IF dim = UnsizedDim THEN base ELSE RConst(base.val - dim[2])

\* ty.resolve_full(): the model has no type aliases
resolve_full(ty) == ty

RECURSIVE mir_lvalue(_), lower_expr_inner(_, _)

\* the port arm without its interface guard comes first
lower_ident_port_first(e, ty) ==
    IF e.binding = "ResolveErr" \/ e.binding = "HirErr" THEN Err(<<>>, {})
    ELSE LET tag ==
               CASE e.binding = "GenvarDecl" -> "Genvar"
                 [] e.binding = "VarDecl" -> "Var"
                 [] e.binding = "IntPort" -> "Port"
                 [] e.binding = "Inst" /\ get_interface(resolve_full(ty)) -> "Intf"
                 [] OTHER -> "none"
         IN  IF tag = "none" THEN Err(<<DiagNotTarget>>, {})
             ELSE LET n == build(ty, KDecl(tag, e.decl)) IN Ok(n, <<>>, {n})

\* hir::ExprKind::Ident | hir::ExprKind::Scope
lower_ident(e, ty) ==
    IF e.binding = "ResolveErr" \/ e.binding = "HirErr" THEN Err(<<>>, {})
    ELSE LET tag ==
               CASE e.binding = "GenvarDecl" -> "Genvar"
                 [] e.binding = "VarDecl" -> "Var"
                 [] e.binding = "IntPort" /\ get_interface(resolve_full(ty)) -> "Intf"
                 [] e.binding = "IntPort" -> "Port"
                 [] e.binding = "Inst" /\ get_interface(resolve_full(ty)) -> "Intf"
                 [] OTHER -> "none"
         IN  IF tag = "none" THEN Err(<<DiagNotTarget>>, {})
             ELSE LET n == build(ty, KDecl(tag, e.decl)) IN Ok(n, <<>>, {n})

\* the offset is not re-based against the dimension of the target
lower_index_unadjusted(e, ty) ==
    IF e.indexing.k = "err" THEN Err(<<>>, {})
    ELSE LET t == mir_lvalue(e.target) IN
         IF t.st = "abort" THEN t
         ELSE IF dims(t.node.ty) = <<>> THEN Abort(t.diags, t.built)
         ELSE LET n == build(ty, KIndex(t.node, e.indexing.base, e.indexing.length))
              IN  Ok(n, t.diags, t.built \cup {n})

\* hir::ExprKind::Index
lower_index(e, ty) ==
    IF e.indexing.k = "err" THEN Err(<<>>, {})
    ELSE Once(mir_lvalue(e.target), LAMBDA t :
         IF t.st = "abort" THEN t
         ELSE IF dims(t.node.ty) = <<>> THEN After(Abort(t.diags, t.built), <<t>>)
         ELSE LET target_dim == dims(t.node.ty)[1]
                  base == adjust_indexing(e.indexing.base, target_dim)
                  n == build(ty, KIndex(t.node, base, e.indexing.length))
              IN  After(Ok(n, t.diags, t.built \cup {n}), <<t>>))

\* a modport is addressed like a signal of the interface
lower_field_layered(e, ty) ==
    LET value == mir_lvalue(e.target) IN
    IF value.st = "abort" THEN value
    ELSE After(
         IF get_interface(e.target_ty)
         THEN IF e.hier = "err" THEN Err(value.diags, value.built)
              ELSE LET n == build(ty, KIntfSignal(value.node, e.member))
                   IN  Ok(n, value.diags, value.built \cup {n})
         ELSE IF e.field.k = "err" THEN Err(value.diags, value.built)
              ELSE LET n == build(ty, KMember(value.node, e.field.idx))
                   IN  Ok(n, value.diags, value.built \cup {n}),
         <<value>>)

\* hir::ExprKind::Field
lower_field(e, ty) ==
    Once(mir_lvalue(e.target), LAMBDA value :
    IF value.st = "abort" THEN value
    ELSE After(
         IF get_interface(e.target_ty)
         THEN IF e.hier = "err" THEN Err(value.diags, value.built)
              ELSE IF e.hier = "modport"
              THEN LET n == build(ty, kind_of(value.node))
                   IN  Ok(n, value.diags, value.built \cup {n})
              ELSE LET n == build(ty, KIntfSignal(value.node, e.member))
                   IN  Ok(n, value.diags, value.built \cup {n})
         ELSE IF e.field.k = "err" THEN Err(value.diags, value.built)
              ELSE LET n == build(ty, KMember(value.node, e.field.idx))
                   IN  Ok(n, value.diags, value.built \cup {n}),
         <<value>>))

\* the operands are pushed in reverse source order
lower_concat_rev(e, ty) ==
    LET n == Len(e.exprs)
        value == [i \in 1..n |-> mir_lvalue(e.exprs[i])]
        ds == ConcatSeq([i \in 1..n |-> value[i].diags])
        sub == UNION {value[i].built : i \in 1..n}
    IN  After(
        IF \E i \in 1..n : value[i].st = "abort"
                           \/ ~coalesces_to_llhd_scalar(value[i].node.ty)
        THEN Abort(ds, sub)
        ELSE LET final_ty == e.sdt IN
             IF is_error_ty(final_ty) THEN Err(ds, sub)
             ELSE LET concat_width == SumSeq([i \in 1..n |-> get_bit_size(value[i].node.ty)])
                      concat_ty == SbvTy(domain(final_ty), "unsigned", concat_width)
                      concat == build(concat_ty, KConcat([i \in 1..n |-> value[n + 1 - i].node]))
                  IN  CASE e.repeat.k = "none" -> Ok(concat, ds, sub \cup {concat})
                        [] e.repeat.k = "err" -> Err(ds, sub \cup {concat})
                        [] e.repeat.k = "count" ->
                             IF e.repeat.n < 0 THEN Abort(ds, sub \cup {concat})
                             ELSE LET r == build(final_ty, KRepeat(e.repeat.n, concat))
                                  IN  Ok(r, ds, sub \cup {concat, r}),
        value)

\* the operands are not asserted to be flat
lower_concat_unasserted(e, ty) ==
    LET n == Len(e.exprs) IN
    Once([i \in 1..n |-> mir_lvalue(e.exprs[i])] \o <<>>, LAMBDA value :
    LET ds == ConcatSeq([i \in 1..n |-> value[i].diags])
        sub == UNION {value[i].built : i \in 1..n}
    IN  After(
        IF \E i \in 1..n : value[i].st = "abort"
        THEN Abort(ds, sub)
        ELSE LET final_ty == e.sdt IN
             IF is_error_ty(final_ty) THEN Err(ds, sub)
             ELSE LET concat_width == SumSeq([i \in 1..n |-> get_bit_size(value[i].node.ty)])
                      concat_ty == SbvTy(domain(final_ty), "unsigned", concat_width)
                      concat == build(concat_ty, KConcat([i \in 1..n |-> value[i].node]))
                  IN  CASE e.repeat.k = "none" -> Ok(concat, ds, sub \cup {concat})
                        [] e.repeat.k = "err" -> Err(ds, sub \cup {concat})
                        [] e.repeat.k = "count" ->
                             IF e.repeat.n < 0 THEN Abort(ds, sub \cup {concat})
                             ELSE LET r == build(final_ty, KRepeat(e.repeat.n, concat))
                                  IN  Ok(r, ds, sub \cup {concat, r}),
        value))

\* hir::ExprKind::Concat
lower_concat(e, ty) ==
    LET n == Len(e.exprs) IN
    Once([i \in 1..n |-> mir_lvalue(e.exprs[i])] \o <<>>, LAMBDA value :
    LET ds == ConcatSeq([i \in 1..n |-> value[i].diags])
        sub == UNION {value[i].built : i \in 1..n}
    IN  After(
        IF \E i \in 1..n : value[i].st = "abort"
                           \/ ~coalesces_to_llhd_scalar(value[i].node.ty)
        THEN Abort(ds, sub)
        ELSE LET final_ty == e.sdt IN
             IF is_error_ty(final_ty) THEN Err(ds, sub)
             ELSE LET concat_width == SumSeq([i \in 1..n |-> get_bit_size(value[i].node.ty)])
                      concat_ty == SbvTy(domain(final_ty), "unsigned", concat_width)
                      concat == build(concat_ty, KConcat([i \in 1..n |-> value[i].node]))
                  IN  CASE e.repeat.k = "none" -> Ok(concat, ds, sub \cup {concat})
                        [] e.repeat.k = "err" -> Err(ds, sub \cup {concat})
                        [] e.repeat.k = "count" ->
                             IF e.repeat.n < 0 THEN Abort(ds, sub \cup {concat})
                             ELSE LET r == build(final_ty, KRepeat(e.repeat.n, concat))
                                  IN  Ok(r, ds, sub \cup {concat, r}),
        value))

\* the fallthrough of the shape dispatch emits no diagnostic
lower_expr_inner_silent(e, ty) ==
    IF is_error_ty(ty) THEN Err(<<>>, {})
    ELSE CASE e.shape \in {"Ident", "Scope"} -> lower_ident(e, ty)
           [] e.shape = "Index" -> lower_index(e, ty)
           [] e.shape = "Field" -> lower_field(e, ty)
           [] e.shape = "Concat" -> lower_concat(e, ty)
           [] OTHER -> [Err(<<>>, {}) EXCEPT !.log = <<LogHir>>]

lower_expr_inner(e, ty) ==
    IF is_error_ty(ty) THEN Err(<<>>, {})
    ELSE CASE e.shape \in {"Ident", "Scope"} -> lower_ident(e, ty)
           [] e.shape = "Index" -> lower_index(e, ty)
           [] e.shape = "Field" -> lower_field(e, ty)
           [] e.shape = "Concat" -> lower_concat(e, ty)
           [] OTHER -> [Err(<<DiagNotAssignable>>, {}) EXCEPT !.log = <<LogHir>>]

mir_lvalue(e) ==
    Enter(
    IF e.hir = "Err" THEN Ok(error_node, <<>>, {error_node})
    ELSE IF e.hir = "Other" THEN Abort(<<>>, {})
    ELSE IF e.cast.k = "none" THEN Abort(<<>>, {})
    ELSE Once(lower_expr_inner(e, e.cast.init), LAMBDA r :
         IF r.st = "abort" THEN r
         ELSE LET lvalue == IF r.st = "err" THEN error_node ELSE r.node
                  b == IF r.st = "err" THEN r.built \cup {error_node} ELSE r.built
              IN  IF is_error(lvalue) THEN After(Ok(lvalue, r.diags, b), <<r>>)
                  ELSE IF ~is_identical(lvalue.ty, e.cast.init)
                  THEN After(Abort(r.diags, b), <<r>>)
                  ELSE Once(lower_cast(lvalue, e.cast), LAMBDA c :
                            [c EXCEPT !.diags = r.diags, !.built = b \cup c.built,
                                      !.log = r.log \o c.log, !.depth = r.depth])))

(* --------------------------- the input space --------------------------- *)
\* declared dimensions [hi:lo]
Ranges == {r \in (0..MaxHi) \X (0..MaxHi) : r[1] >= r[2]}

\* component types: a single bit, a vector [MaxHi:0], a vector [MaxHi:1]
ElemTys ==
    { VecTy("two", "unsigned", <<>>),
      VecTy("four", "unsigned", << <<MaxHi, 0>> >>),
      VecTy("four", "unsigned", << <<MaxHi, 1>> >>) }

FlatTys == ElemTys \cup {VecTy("four", "unsigned", <<r>>) : r \in Ranges}

ArrTys1 == {ArrTy(r[1], r[2], e) : r \in Ranges, e \in ElemTys}

StructTys1 == {StructTy(m) : m \in SeqsUpTo(ElemTys, MaxMembers)}

\* components of the types of nesting depth two
CompTys ==
    ElemTys \cup
    { ArrTy(1, 0, VecTy("two", "unsigned", <<>>)),
      ArrTy(1, 1, VecTy("four", "unsigned", << <<MaxHi, 0>> >>)),
      StructTy(<< VecTy("four", "unsigned", << <<MaxHi, 0>> >>),
                  VecTy("two", "unsigned", <<>>) >>) }

ArrTys2 == {ArrTy(r[1], r[2], e) : r \in {<<1, 0>>, <<MaxHi, 1>>}, e \in CompTys \ ElemTys}

StructTys2 == {StructTy(m) : m \in SeqsUpTo(CompTys, MaxMembers)}

\* the types of the scenarios: x:[7:0], x:[4:1], struct {a:[3:0]; b:[1:0]}
Logic(hi, lo) == VecTy("four", "unsigned", << <<hi, lo>> >>)
ScenarioStruct == StructTy(<<Logic(3, 0), Logic(1, 0)>>)
ScenarioTys == {Logic(7, 0), Logic(4, 1), Logic(3, 0), Logic(1, 0), ScenarioStruct}

\* the types with a bit size
PackableTys == FlatTys \cup ArrTys1 \cup StructTys1 \cup ArrTys2 \cup StructTys2 \cup ScenarioTys

IntfTys == {IntfTy("none"), IntfTy("mp")}

\* the declarations a name resolves to
Decls == {"d1", "d2"}

\* the values handed to pack_simple_bit_vector: variables of every type,
\* and an error node
UnsizedTys == {UnsizedTy(e) : e \in ElemTys}

PackValues ==
    {build(t, KDecl("Var", "d1")) : t \in PackableTys \cup IntfTys \cup UnsizedTys}
    \cup {error_node}

(* ----------------------------- expressions ---------------------------- *)
NoCast == [k |-> "none"]

\* the empty chain: no cast is needed
PlainCast(t) == CastTy(t, <<>>, t)

\* the cast chains the type checker computes for an expression of type t
CastsFor(t) ==
    {CastTy(t, <<>>, t)}
    \cup (IF get_bit_size(t) >= 0
          THEN {CastTy(t, << <<"PackSBVT", simple_bit_vector(t)>> >>, simple_bit_vector(t))}
          ELSE {})
    \cup (IF t = IntfTy("none")
          THEN {CastTy(t, << <<"PickModport", IntfTy("mp")>> >>, IntfTy("mp"))}
          ELSE {})

\* chains of an upstream error, and chains the type checker should not produce
BadCastsFor(t) ==
    { CastTy(ErrTy, <<>>, ErrTy),
      CastTy(t, <<>>, ErrTy),
      CastTy(t, << <<"SignCast", t>> >>, t),
      CastTy(t, <<>>, IntfTy("mp")),
      CastTy(t, << <<"PackSBVT", IntfTy("mp")>> >>, IntfTy("mp")),
      CastTy(t, << <<"PackSBVT", SbvTy("two", "unsigned", MaxHi + 2)>>,
                   <<"PickModport", simple_bit_vector(t)>> >>, simple_bit_vector(t)),
      CastTy(t, << <<"PackSBVT", SbvTy("two", "unsigned", MaxHi + 2)>> >>,
                SbvTy("two", "unsigned", MaxHi + 2)) }

EIdent(binding, decl, cast) ==
    [hir |-> "Expr", cast |-> cast, shape |-> "Ident", binding |-> binding, decl |-> decl]

EIndex(target, indexing, cast) ==
    [hir |-> "Expr", cast |-> cast, shape |-> "Index", target |-> target,
     indexing |-> indexing]

EField(target, target_ty, hier, field, cast) ==
    [hir |-> "Expr", cast |-> cast, shape |-> "Field", target |-> target,
     target_ty |-> target_ty, hier |-> hier, member |-> "m1", field |-> field]

EConcat(repeat, exprs, sdt, cast) ==
    [hir |-> "Expr", cast |-> cast, shape |-> "Concat", repeat |-> repeat,
     exprs |-> exprs, sdt |-> sdt]

ECall(cast) == [hir |-> "Expr", cast |-> cast, shape |-> "Call"]

\* a variable of type t, used without a cast
VarOf(t, decl) == EIdent("VarDecl", decl, CastTy(t, <<>>, t))

\* what hir_of(binding) can be, or the failure of resolve_node or of hir_of
Bindings == {"ResolveErr", "HirErr", "GenvarDecl", "VarDecl", "IntPort", "Inst", "Typedef"}

IdentTys == FlatTys \cup ArrTys1 \cup StructTys1 \cup ArrTys2 \cup ScenarioTys \cup IntfTys

Idents ==
    {EIdent(b, "d1", c) : b \in Bindings, c \in UNION {CastsFor(t) : t \in IdentTys}}
    \cup {EIdent(b, "d2", c) : b \in Bindings,
                               c \in UNION {BadCastsFor(t) : t \in ElemTys \cup IntfTys}}
    \cup {[EIdent(b, "d2", CastTy(t, <<>>, t)) EXCEPT !.shape = "Scope"] :
             b \in Bindings, t \in ElemTys \cup IntfTys}

\* expressions whose lowering is an Error node: hir_of fails (no diagnostic),
\* the name resolves to a typedef (one diagnostic)
ErrorExprs ==
    { [VarOf(Logic(MaxHi, 0), "d1") EXCEPT !.hir = "Err"],
      EIdent("Typedef", "d1", CastTy(Logic(MaxHi, 0), <<>>, Logic(MaxHi, 0))) }

\* expressions on which the query fails before dispatch
Faults ==
    {[e EXCEPT !.hir = h] : h \in {"Err", "Other"},
                            e \in {VarOf(Logic(MaxHi, 0), "d1"), ECall(PlainCast(Logic(MaxHi, 0)))}}
    \cup {[e EXCEPT !.cast = NoCast] :
             e \in {VarOf(Logic(MaxHi, 0), "d1"), ECall(NoCast),
                    EIdent("ResolveErr", "d1", NoCast)}}

\* the type of an element (length 0) or of a slice of length len of t
IndexTy(t, len) ==
    IF len = 0 THEN pop_dim(t)
    ELSE IF t.k = "arr" THEN ArrTy(len - 1, 0, t.elem)
    ELSE VecTy(t.dom, t.sign, << <<len - 1, 0>> >>)

\* the answers of compute_indexing for a target whose outermost dimension is d
IndexingsFor(d) ==
    {[k |-> "ok", base |-> RConst(b), length |-> len] :
        b \in d[2]..d[1], len \in 0..DimSize(d)}

\* lower::rvalue::compute_indexing on an absolute range [lhs:rhs]: the lower
\* bound and the number of elements
compute_indexing_range(lhs, rhs) ==
    [k |-> "ok", base |-> RConst(IF lhs < rhs THEN lhs ELSE rhs),
     length |-> (IF lhs < rhs THEN rhs - lhs ELSE lhs - rhs) + 1]

\* x[2:1] with x declared [4:1]
ScenarioC ==
    EIndex(VarOf(Logic(4, 1), "d1"), compute_indexing_range(2, 1), PlainCast(Logic(1, 0)))

IndexedTys == {t \in FlatTys \cup ArrTys1 \cup ArrTys2 \cup ScenarioTys : dims(t) # <<>>}

\* targets of an indexing: variables, and an element of an array of arrays
IndexTargets ==
    {VarOf(t, "d1") : t \in IndexedTys}
    \cup {EIndex(VarOf(t, "d1"), [k |-> "ok", base |-> RConst(t.lo), length |-> 0],
                 CastTy(t.elem, <<>>, t.elem)) :
             t \in {u \in ArrTys2 : u.elem.k = "arr"}}

Indexes ==
    UNION { {EIndex(x, ix, CastTy(IndexTy(x.cast.ty, ix.length), <<>>,
                                  IndexTy(x.cast.ty, ix.length))) :
                ix \in IndexingsFor(dims(x.cast.ty)[1])}
            \cup {EIndex(x, [k |-> "err"], CastTy(pop_dim(x.cast.ty), <<>>, pop_dim(x.cast.ty)))} :
            x \in IndexTargets }
    \cup UNION { {EIndex(VarOf(t, "d1"), [k |-> "ok", base |-> RConst(t.lo), length |-> 0], c) :
                      c \in CastsFor(t.elem) \cup BadCastsFor(t.elem)} : t \in ArrTys1 }
    \cup {EIndex(x, [k |-> "ok", base |-> RConst(0), length |-> 0], c) :
             x \in ErrorExprs \cup {VarOf(VecTy("two", "unsigned", <<>>), "d1")},
             c \in {CastTy(VecTy("two", "unsigned", <<>>), <<>>, VecTy("two", "unsigned", <<>>)),
                    CastTy(ErrTy, <<>>, ErrTy)}}

FieldTys == StructTys1 \cup {ScenarioStruct} \cup {t \in StructTys2 : Len(t.members) = 1}

Fields ==
    {EField(VarOf(t, "d1"), t, "err", [k |-> "ok", idx |-> i - 1], c) :
        t \in FieldTys, i \in 1..MaxMembers, c \in UNION {CastsFor(m) : m \in ElemTys \cup CompTys}}
    \cup {EField(VarOf(t, "d1"), IF known THEN t ELSE [k |-> "none"], "err", [k |-> "err"],
                 PlainCast(t.members[1])) :
             t \in StructTys1, known \in BOOLEAN}
    \cup {EField(EIdent(b, "d1", CastTy(IntfTy("none"), <<>>, IntfTy("none"))),
                 IntfTy("none"), h, [k |-> "err"], c) :
             b \in {"IntPort", "Inst"}, h \in {"err", "modport", "signal"},
             c \in CastsFor(IntfTy("mp")) \cup CastsFor(VecTy("two", "unsigned", <<>>))}
    \cup {EField(x, tt, h, [k |-> "ok", idx |-> 0], c) :
             x \in ErrorExprs, tt \in {StructTy(<<Logic(MaxHi, 0)>>), IntfTy("none"), [k |-> "none"]},
             h \in {"modport", "signal"},
             c \in {CastTy(Logic(MaxHi, 0), <<>>, Logic(MaxHi, 0)), CastTy(ErrTy, <<>>, ErrTy)}}

\* operands of a concatenation: flat variables, a struct packed by its cast,
\* a struct that was not packed, and the expressions that lower to Error
Operands ==
    { VarOf(Logic(MaxHi, 0), "d1"),
      VarOf(VecTy("two", "unsigned", <<>>), "d2"),
      EIdent("VarDecl", "d1",
             CastTy(ScenarioStruct, << <<"PackSBVT", simple_bit_vector(ScenarioStruct)>> >>,
                    simple_bit_vector(ScenarioStruct))),
      VarOf(ScenarioStruct, "d2") }
    \cup ErrorExprs

ScenarioOperands == <<VarOf(Logic(3, 0), "d1"), VarOf(Logic(1, 0), "d2")>>

Repeats == {[k |-> "none"], [k |-> "err"], [k |-> "count", n |-> 2], [k |-> "count", n |-> -1]}

\* the width the type checker gives a concatenation of the operands es
OperandWidth(e) == IF get_bit_size(e.cast.ty) >= 0 THEN get_bit_size(e.cast.ty) ELSE 0
ConcatWidth(es) == SumSeq([i \in 1..Len(es) |-> OperandWidth(es[i])])
RepeatCount(r) == IF r.k = "count" /\ r.n > 0 THEN r.n ELSE 1

\* the self-determined type of a concatenation and the chain to it
ConcatSdt(r, es) == SbvTy("four", "unsigned", ConcatWidth(es) * RepeatCount(r))

Concats ==
    {EConcat(r, es, ConcatSdt(r, es), PlainCast(ConcatSdt(r, es))) :
        r \in Repeats,
        es \in SeqsUpTo(Operands, MaxOperands) \cup {ScenarioOperands}}
    \cup {EConcat(r, es, sdt, PlainCast(ConcatSdt([k |-> "none"], es))) :
        r \in {[k |-> "none"], [k |-> "count", n |-> 2]},
        es \in SeqsUpTo({VarOf(Logic(MaxHi, 0), "d1")}, MaxOperands),
        sdt \in {ErrTy, SbvTy("two", "unsigned", 1)}}

Calls == {ECall(c) : c \in CastsFor(Logic(MaxHi, 0)) \cup BadCastsFor(Logic(MaxHi, 0))}

Exprs == Idents \cup Faults \cup Indexes \cup {ScenarioC} \cup Fields \cup Concats \cup Calls

\* the values and chains handed to lower_cast: the chains of the type
\* checker, the bad chains, a chain whose only step misses its target while
\* the final type is met, and a chain for a value of another type
CastValues ==
    {build(t, KDecl("Var", "d1")) : t \in ElemTys \cup IntfTys \cup {ScenarioStruct}}

ChainsFor(t) ==
    CastsFor(t) \cup BadCastsFor(t)
    \cup { CastTy(t, << <<"PackSBVT", SbvTy("two", "unsigned", MaxHi + 2)>> >>,
                  simple_bit_vector(t)),
           PlainCast(Logic(MaxHi + 1, 0)) }

LowerCasts ==
    UNION {{[op |-> "lower_cast", value |-> v, to |-> c] : c \in ChainsFor(v.ty)}
           : v \in CastValues}
    \cup {[op |-> "lower_cast", value |-> error_node, to |-> c]
           : c \in ChainsFor(Logic(MaxHi, 0))}

(* ------------------------------- system -------------------------------- *)
Pending == [st |-> "pending", node |-> NoNode]

(* --------------------------- the preprocessor -------------------------- *)
\* tokens of the lexer; LexErr stands for input on which the lexer fails
TEof == [k |-> "Eof"]
TIdent(name) == [k |-> "Ident", name |-> name]
TInclude(filename) == [k |-> "Include", filename |-> filename]
TDefine(name, body) == [k |-> "Define", name |-> name, body |-> body]
TCompDir(name) == [k |-> "CompDir", name |-> name]
LexErr == [k |-> "LexErr"]

\* the file handed to Preprocessor::new, and the files that can be included:
\* one next to it, three in the directory includes (one of them empty, one
\* including a third file of that directory)
TopFile == <<"top.sv">>

IncludeFiles ==
    (<<"a.svh">> :> <<TDefine("M", "1"), TIdent("a1")>>)
    @@ (<<"includes", "b.svh">> :> <<TInclude("c.svh"), TIdent("b1")>>)
    @@ (<<"includes", "c.svh">> :> <<TIdent("c1")>>)
    @@ (<<"includes", "e.svh">> :> <<>>)

\* the file system when the top file holds src
Files(src) == (TopFile :> src) @@ IncludeFiles

\* what the top file can hold
TopTokens ==
    { TIdent("t1"), TInclude("a.svh"), TInclude("b.svh"), TInclude("e.svh"),
      TInclude("missing.svh"), TDefine("N", "2"), TCompDir("M"), TCompDir("N"), LexErr }

\* lexer::make(path): a lexer at the start of the file
lexer_make(path) == [path |-> path, pos |-> 1]

\* Lexer::next_token: the next token of the file and the lexer after it; at
\* the end of the file the token is Eof
lexer_next_token(lx, files) ==
    IF lx.pos > Len(files[lx.path]) THEN [tkn |-> TEof, lexer |-> lx]
    ELSE [tkn |-> files[lx.path][lx.pos], lexer |-> [lx EXCEPT !.pos = @ + 1]]

\* PathBuf::pop: the directory a file is in
dir_of(path) == SubSeq(path, 1, Len(path) - 1)

\* the search paths of an include, in the order they are tried: the
\* directory of the current file, then its subdirectory includes
search_paths(path, filename) ==
    << dir_of(path) \o <<filename>>, dir_of(path) \o <<"includes", filename>> >>

\* path.exists()
exists(path, files) == path \in DOMAIN files

\* outcomes of next_token: Ok(token), the Err of the lexer, or a panic
Panic == [k |-> "panic"]
NoToken == [k |-> "none"]

RECURSIVE next_token(_, _, _)

\* the Eof of an included file is returned to the caller
next_token_eof_returned(stk, mac, files) ==
    LET r == lexer_next_token(stk[Len(stk)], files)
        stk1 == [stk EXCEPT ![Len(stk)] = r.lexer]
        tkn == r.tkn
    IN  CASE tkn.k = "LexErr" -> [stack |-> stk1, macros |-> mac, out |-> tkn]
          [] tkn.k = "Eof" -> [stack |-> stk1, macros |-> mac, out |-> tkn]
          [] tkn.k = "Include" ->
                LET found == SelectSeq(search_paths(stk1[Len(stk1)].path, tkn.filename),
                                       LAMBDA q : exists(q, files))
                IN  IF found # <<>>
                    THEN next_token(Append(stk1, lexer_make(found[1])), mac, files)
                    ELSE [stack |-> stk1, macros |-> mac, out |-> Panic]
          [] tkn.k = "Define" ->
                next_token(stk1, (tkn.name :> tkn.body) @@ mac, files)
          [] tkn.k = "CompDir" ->
                IF tkn.name \in DOMAIN mac THEN next_token(stk1, mac, files)
                ELSE [stack |-> stk1, macros |-> mac, out |-> Panic]
          [] OTHER -> [stack |-> stk1, macros |-> mac, out |-> tkn]

\* Preprocessor::next_token: the loop, one iteration per token of a lexer
next_token(stk, mac, files) ==
    LET r == lexer_next_token(stk[Len(stk)], files)
        stk1 == [stk EXCEPT ![Len(stk)] = r.lexer]
        tkn == r.tkn
    IN  CASE tkn.k = "LexErr" -> [stack |-> stk1, macros |-> mac, out |-> tkn]
          [] tkn.k = "Eof" ->
                IF Len(stk1) = 1 THEN [stack |-> stk1, macros |-> mac, out |-> tkn]
                ELSE next_token(SubSeq(stk1, 1, Len(stk1) - 1), mac, files)
          [] tkn.k = "Include" ->
                LET found == SelectSeq(search_paths(stk1[Len(stk1)].path, tkn.filename),
                                       LAMBDA q : exists(q, files))
                IN  IF found # <<>>
                    THEN next_token(Append(stk1, lexer_make(found[1])), mac, files)
                    ELSE [stack |-> stk1, macros |-> mac, out |-> Panic]
          [] tkn.k = "Define" ->
                next_token(stk1, (tkn.name :> tkn.body) @@ mac, files)
          [] tkn.k = "CompDir" ->
                IF tkn.name \in DOMAIN mac THEN next_token(stk1, mac, files)
                ELSE [stack |-> stk1, macros |-> mac, out |-> Panic]
          [] OTHER -> [stack |-> stk1, macros |-> mac, out |-> tkn]

\* the preprocessor is not in use
PreIdle ==
    /\ source = <<>>
    /\ stack = <<>>
    /\ macros = <<>>
    /\ returned = NoToken

\* the lvalue lowering is not in use
LowerIdle ==
    /\ call = [op |-> "none"]
    /\ result = Pending
    /\ emitted = <<>>
    /\ built = {}
    /\ logged = <<>>
    /\ depth = 0
    /\ store = {}
    /\ ncalls = 0

\* Preprocessor::new(filename) on a file system whose top file holds up to
\* MaxTokens tokens
PreInit ==
    /\ source \in {<<>>} \cup SeqsUpTo(TopTokens, MaxTokens)
    /\ stack = <<lexer_make(TopFile)>>
    /\ macros = <<>>
    /\ returned = NoToken
    /\ LowerIdle

\* one call of next_token; after a panic there is no further call
NextToken ==
    /\ returned # Panic
    /\ \E r \in {next_token(stack, macros, Files(source))} :
          /\ stack' = r.stack
          /\ macros' = r.macros
          /\ returned' = r.out
    /\ UNCHANGED <<source, lvars>>

PreNext == NextToken

PreSpec == PreInit /\ [][PreNext]_vars

\* a request is made: a query mir_lvalue(expr, env) that misses the cache,
\* a value that a PackSBVT step hands to pack_simple_bit_vector, or a value
\* and a chain handed to lower_cast
Init ==
    /\ call \in {[op |-> "mir_lvalue", expr |-> e] : e \in Exprs}
                \cup {[op |-> "pack_simple_bit_vector", value |-> v] : v \in PackValues}
                \cup LowerCasts
    /\ result = Pending
    /\ emitted = <<>>
    /\ built = {}
    /\ logged = <<>>
    /\ depth = 0
    /\ store = {}
    /\ ncalls = 1
    /\ PreIdle

\* the outcome r of the operation becomes the state: the node returned (or
\* the abort), the diagnostics appended to the sink, the nodes allocated by
\* the call and added to the node store, the lines logged, the depth the
\* recursion reached
Return(r) ==
    /\ result' = [st |-> r.st, node |-> r.node]
    /\ emitted' = r.diags
    /\ built' = r.built
    /\ logged' = r.log
    /\ depth' = r.depth
    /\ store' = store \cup r.built
    /\ UNCHANGED <<call, ncalls, pvars>>

Pack ==
    /\ call.op = "pack_simple_bit_vector"
    /\ result = Pending
    /\ \E r \in {pack_simple_bit_vector(call.value)} : Return(r)

MirLvalue ==
    /\ call.op = "mir_lvalue"
    /\ result = Pending
    /\ \E r \in {mir_lvalue(call.expr)} : Return(r)

LowerCast ==
    /\ call.op = "lower_cast"
    /\ result = Pending
    /\ \E r \in {lower_cast(call.value, call.to)} : Return(r)

Next == Pack \/ MirLvalue \/ LowerCast

Spec == Init /\ [][Next]_vars

\* the queries made one after the other on one node store: concatenations
\* of flat operands, of a struct packed by its chain, of a struct that is
\* not packed and of an operand that fails; variables packed by their chain
SeqExprs ==
    {EConcat(r, ScenarioOperands, ConcatSdt(r, ScenarioOperands),
             PlainCast(ConcatSdt(r, ScenarioOperands)))
        : r \in {[k |-> "none"], [k |-> "count", n |-> 2]}}
    \cup {EConcat([k |-> "none"], es, ConcatSdt([k |-> "none"], es),
                  PlainCast(ConcatSdt([k |-> "none"], es)))
            : es \in { <<EIdent("VarDecl", "d1",
                                CastTy(ScenarioStruct,
                                       << <<"PackSBVT", simple_bit_vector(ScenarioStruct)>> >>,
                                       simple_bit_vector(ScenarioStruct))),
                         VarOf(Logic(1, 0), "d2")>>,
                       <<VarOf(ScenarioStruct, "d2")>>,
                       <<VarOf(Logic(1, 0), "d2"), VarOf(ScenarioStruct, "d1")>>,
                       <<[VarOf(Logic(MaxHi, 0), "d1") EXCEPT !.hir = "Err"]>> }}
    \cup {EIdent("VarDecl", "d1", CastTy(t, << <<"PackSBVT", simple_bit_vector(t)>> >>,
                                         simple_bit_vector(t)))
            : t \in {ScenarioStruct, StructTy(<<ScenarioStruct, Logic(1, 0)>>),
                     ArrTy(1, 0, ScenarioStruct), ArrTy(MaxHi, 1, Logic(1, 0))}}
    \cup {ECall(PlainCast(Logic(1, 0)))}

SeqInit ==
    /\ call \in {[op |-> "mir_lvalue", expr |-> e] : e \in SeqExprs}
    /\ result = Pending
    /\ emitted = <<>>
    /\ built = {}
    /\ logged = <<>>
    /\ depth = 0
    /\ store = {}
    /\ ncalls = 1
    /\ PreIdle

\* the query returned and the compilation goes on with another query (after
\* an abort there is none); the new call starts with nothing emitted and
\* nothing built, the node store keeps what the earlier calls allocated
Again ==
    /\ result # Pending
    /\ result.st # "abort"
    /\ ncalls < MaxCalls
    /\ \E e \in SeqExprs : call' = [op |-> "mir_lvalue", expr |-> e]
    /\ result' = Pending
    /\ emitted' = <<>>
    /\ built' = {}
    /\ logged' = <<>>
    /\ depth' = 0
    /\ ncalls' = ncalls + 1
    /\ UNCHANGED <<store, pvars>>

SeqNext == MirLvalue \/ Again

SeqSpec == SeqInit /\ [][SeqNext]_vars

\* requests of every operation, on types of every nesting depth and on
\* expression trees of every shape and of height one to three
FairTys ==
    ElemTys \cup ArrTys2 \cup IntfTys \cup UnsizedTys
    \cup {ScenarioStruct, StructTy(<<ScenarioStruct, Logic(1, 0)>>)}

FairExprs ==
    Calls \cup Faults \cup ErrorExprs \cup {ScenarioC}
    \cup {VarOf(t, "d1") : t \in FairTys}
    \cup {EIndex(ScenarioC, [k |-> "ok", base |-> RConst(b), length |-> 0],
                 PlainCast(pop_dim(Logic(1, 0)))) : b \in 0..1}
    \cup {EField(VarOf(ScenarioStruct, "d1"), ScenarioStruct, "err",
                 [k |-> "ok", idx |-> i], PlainCast(ScenarioStruct.members[i + 1]))
             : i \in 0..1}
    \cup {EField(EIdent("IntPort", "d1", PlainCast(IntfTy("none"))), IntfTy("none"), h,
                 [k |-> "err"], PlainCast(IntfTy("mp"))) : h \in {"err", "modport", "signal"}}
    \cup {EConcat(r, es, ConcatSdt(r, es), PlainCast(ConcatSdt(r, es))) :
             r \in Repeats,
             es \in {ScenarioOperands, <<ScenarioC, VarOf(Logic(1, 0), "d2")>>}}

FairInit ==
    /\ call \in {[op |-> "mir_lvalue", expr |-> e] : e \in FairExprs}
                \cup {[op |-> "pack_simple_bit_vector", value |-> v] :
                         v \in {build(t, KDecl("Var", "d1")) : t \in FairTys}
                               \cup {error_node}}
                \cup LowerCasts
    /\ result = Pending
    /\ emitted = <<>>
    /\ built = {}
    /\ logged = <<>>
    /\ depth = 0
    /\ store = {}
    /\ ncalls = 1
    /\ PreIdle

\* a call that was made runs to its end: the operations are plain function
\* calls, and nothing else is scheduled
FairSpec == FairInit /\ [][Next]_vars /\ WF_vars(Next)

(* ------------------------------ properties ----------------------------- *)
Done == result # Pending
Query == call.op = "mir_lvalue" /\ Done
Packed == call.op = "pack_simple_bit_vector" /\ Done
Returned == result.st = "ok"

Width(n) == get_bit_size(n.ty)

\* the operands of a concatenation all lower to flat nodes
OperandsLowered(e) ==
    \A i \in 1..Len(e.exprs) :
        /\ mir_lvalue(e.exprs[i]).st = "ok"
        /\ coalesces_to_llhd_scalar(mir_lvalue(e.exprs[i]).node.ty)

\* a collaborator query that the call makes returns an error
QueryFails(e) ==
    \/ e.hir = "Err"
    \/ e.hir = "Expr" /\ e.cast.k = "none"
    \/ /\ e.hir = "Expr" /\ e.cast.k = "cast" /\ ~is_error_ty(e.cast.init)
       /\ \/ e.shape \in {"Ident", "Scope"} /\ e.binding \in {"ResolveErr", "HirErr"}
          \/ e.shape = "Index" /\ e.indexing.k = "err"
          \/ /\ e.shape = "Field" /\ mir_lvalue(e.target).st = "ok"
             /\ IF get_interface(e.target_ty) THEN e.hier = "err" ELSE e.field.k = "err"
          \/ /\ e.shape = "Concat" /\ OperandsLowered(e)
             /\ ~is_error_ty(e.sdt) /\ e.repeat.k = "err"

\* C1: a query in which a collaborator fails (hir_of, cast_type,
\* resolve_node, resolve_field_access, resolve_hierarchical_or_error,
\* compute_indexing, constant_int_value_of) returns the Error node with the
\* error type and does not abort.
C1_FailureGivesError ==
    (Query /\ QueryFails(call.expr)) => (Returned /\ result.node = error_node)

\* C2: a node returned by mir_lvalue that is not an Error has the final
\* type of the cast chain, whatever the length of the chain.
C2_FinalType ==
    (Query /\ Returned /\ result.node.kind # "Error")
        => is_identical(result.node.ty, call.expr.cast.ty)

C2_Witness ==
    /\ Query /\ Returned /\ result.node.kind # "Error"
    /\ Len(call.expr.cast.casts) >= 1
    /\ call.expr.cast.ty # call.expr.cast.init

\* the operands of an indexing, a field access or a concatenation
SubExprs(e) ==
    CASE e.shape \in {"Index", "Field"} -> <<e.target>>
      [] e.shape = "Concat" -> e.exprs
      [] OTHER -> <<>>

LowersToError(e) == mir_lvalue(e).st = "ok" /\ mir_lvalue(e).node.kind = "Error"

\* C3: when the target of an indexing or field access, or an operand of a
\* concatenation, lowers to Error, the enclosing expression lowers to Error
\* (no abort, no Index/Member/Concat around the Error) and emits no
\* diagnostic beyond those of its operands.
C3_ErrorAbsorbing ==
    (/\ Query
     /\ call.expr.hir = "Expr" /\ call.expr.cast.k = "cast"
     /\ \E i \in 1..Len(SubExprs(call.expr)) : LowersToError(SubExprs(call.expr)[i]))
        => /\ Returned
           /\ result.node.kind = "Error"
           /\ emitted = ConcatSeq([i \in 1..Len(SubExprs(call.expr)) |->
                                      mir_lvalue(SubExprs(call.expr)[i]).diags])

Concats_built == {n \in built : n.kind = "Concat"}

\* C4: packing a non-Error value of a packable type T returns a node whose
\* type is the flat vector [w-1:0] with w the bit size of T, and in every
\* Concat built the widths of the operands add up to the width of the Concat.
C4_PackWidth ==
    (Packed /\ ~is_error(call.value) /\ get_bit_size(call.value.ty) >= 0)
        => /\ Returned
           /\ is_simple_bit_vector(result.node.ty)
           /\ Width(result.node) = get_bit_size(call.value.ty)
           /\ \A n \in Concats_built :
                 SumSeq([i \in 1..Len(n.ops) |-> Width(n.ops[i])]) = Width(n)

C4_Witness ==
    /\ Packed /\ Returned
    /\ call.value.ty.k = "struct"
    /\ \E n \in Concats_built : n # result.node /\ Len(n.ops) >= 2

\* the general path of pack_array: an array whose element is not a
\* dimensionless integer vector
GeneralArray(t) == t.k = "arr" /\ ~(t.elem.k = "vec" /\ t.elem.dims = <<>>)

\* C5: packing an array of n elements on the general path gives a Concat of
\* n operands, the operand at position p (0 first) being the packed element
\* n-1-p: element 0 is last, element n-1 is first.
C5_ArrayOrder ==
    (Packed /\ GeneralArray(call.value.ty))
        => LET n == call.value.ty.hi - call.value.ty.lo + 1
               element(i) == build(call.value.ty.elem, KIndex(call.value, RConst(i), 0))
           IN  /\ Returned
               /\ result.node.kind = "Concat"
               /\ Len(result.node.ops) = n
               /\ \A p \in 0..(n - 1) :
                     result.node.ops[p + 1] = pack_simple_bit_vector(element(n - 1 - p)).node

C5_Witness ==
    /\ Packed /\ Returned /\ GeneralArray(call.value.ty)
    /\ Len(result.node.ops) >= 2
    /\ result.node.ops[1].kind = "Concat"

\* C6: packing a struct gives one Concat whose operands are the packed
\* Member{value, field: i} in declaration order; struct {a:[3:0]; b:[1:0]}
\* packs to Concat([pack(a), pack(b)]) of width 6.
C6_StructOrder ==
    (Packed /\ call.value.ty.k = "struct")
        => LET ms == call.value.ty.members
               member(i) == build(ms[i + 1], KMember(call.value, i))
           IN  /\ Returned
               /\ result.node.kind = "Concat"
               /\ Len(result.node.ops) = Len(ms)
               /\ \A i \in 0..(Len(ms) - 1) :
                     result.node.ops[i + 1] = pack_simple_bit_vector(member(i)).node
               /\ call.value.ty = ScenarioStruct
                     => /\ result.node.ops =
                             << build(Logic(3, 0), KTransmute(build(Logic(3, 0), KMember(call.value, 0)))),
                                build(Logic(1, 0), KTransmute(build(Logic(1, 0), KMember(call.value, 1)))) >>
                        /\ result.node.ty = Logic(5, 0)

C6_Witness ==
    /\ Packed /\ Returned /\ call.value.ty = ScenarioStruct
    /\ Len(result.node.ops) = 2

\* the position of the lowest bit of operand p (1 = first) of a Concat: the
\* operands after it lie below it
LowBit(n, p) == SumSeq([i \in 1..(Len(n.ops) - p) |-> Width(n.ops[p + i])])

\* the operand of the packed struct that holds member i
HoldsMember(op, i) ==
    op = pack_simple_bit_vector(build(call.value.ty.members[i + 1], KMember(call.value, i))).node

\* C7 as stated: the first-declared member of a packed struct occupies the
\* least-significant bits.
C7_FirstMemberLeast ==
    (Packed /\ Returned /\ call.value.ty.k = "struct")
        => \A p \in 1..Len(result.node.ops) :
              HoldsMember(result.node.ops[p], 0) => LowBit(result.node, p) = 0

\* C7: the first-declared member of a packed struct occupies the
\* most-significant bits, the last-declared member the least-significant.
C7_FirstMemberMost ==
    (Packed /\ Returned /\ call.value.ty.k = "struct")
        => /\ \E p \in 1..Len(result.node.ops) : HoldsMember(result.node.ops[p], 0)
           /\ \A p \in 1..Len(result.node.ops) :
                 /\ HoldsMember(result.node.ops[p], 0)
                       => LowBit(result.node, p) + Width(result.node.ops[p]) = Width(result.node)
                 /\ HoldsMember(result.node.ops[p], Len(call.value.ty.members) - 1)
                       => LowBit(result.node, p) = 0

C7_Witness ==
    /\ Packed /\ Returned /\ call.value.ty.k = "struct"
    /\ Len(call.value.ty.members) >= 2
    /\ LowBit(result.node, 1) > 0

\* an indexing whose target lowers to a node with a dimension
Indexing(e) ==
    /\ e.hir = "Expr" /\ e.cast.k = "cast" /\ ~is_error_ty(e.cast.init)
    /\ e.shape = "Index" /\ e.indexing.k = "ok"
    /\ mir_lvalue(e.target).st = "ok"
    /\ dims(mir_lvalue(e.target).node.ty) # <<>>

\* C8: indexing at k a target whose outermost dimension is [hi:lo] builds
\* Index{value: lowered target, base: k - lo, length} with the length of
\* compute_indexing.
C8_IndexBase ==
    (Query /\ Indexing(call.expr))
        => LET e == call.expr
               target == mir_lvalue(e.target).node
               lo == dims(target.ty)[1][2]
           IN  \E n \in built :
                  /\ n.kind = "Index"
                  /\ n.ty = e.cast.init
                  /\ n.value = target
                  /\ n.base = RConst(e.indexing.base.val - lo)
                  /\ n.length = e.indexing.length

C8_Witness ==
    /\ Query /\ Indexing(call.expr) /\ Returned
    /\ result.node.kind = "Index"
    /\ call.expr.indexing.base.val = 2
    /\ result.node.base.val = 1

ResolvedIdent(e) ==
    /\ e.hir = "Expr" /\ e.cast.k = "cast" /\ ~is_error_ty(e.cast.init)
    /\ e.shape \in {"Ident", "Scope"}
    /\ e.binding \notin {"ResolveErr", "HirErr"}

\* C10: the resolved declaration selects the kind: generate variable Genvar,
\* variable Var, port of interface type Intf, other port Port, instance of
\* interface type Intf; anything else is an Error result with exactly one
\* diagnostic "cannot be used as the target of an assignment".
C10_IdentKind ==
    (Query /\ ResolvedIdent(call.expr))
        => LET e == call.expr
               intf == e.cast.init.k = "intf"
               built_as(tag) == /\ build(e.cast.init, KDecl(tag, e.decl)) \in built
                                /\ emitted = <<>>
           IN  CASE e.binding = "GenvarDecl" -> built_as("Genvar")
                 [] e.binding = "VarDecl" -> built_as("Var")
                 [] e.binding = "IntPort" -> IF intf THEN built_as("Intf") ELSE built_as("Port")
                 [] e.binding = "Inst" /\ intf -> built_as("Intf")
                 [] OTHER -> /\ Returned /\ result.node = error_node
                             /\ emitted = <<DiagNotTarget>>

C10_Witness ==
    /\ Query /\ ResolvedIdent(call.expr)
    /\ call.expr.binding = "Inst" /\ call.expr.cast.init.k # "intf"
    /\ emitted = <<DiagNotTarget>>

\* an expression node of another shape than identifier, scoped identifier,
\* indexing, field access or concatenation, whose cast chain is known
OtherShape(e) ==
    /\ e.hir = "Expr"
    /\ e.cast.k = "cast"
    /\ e.shape \notin {"Ident", "Scope", "Index", "Field", "Concat"}

\* C11 (as stated): for every expression of another shape, mir_lvalue
\* returns the Error node, emits exactly one diagnostic, "<description>
\* cannot be assigned to", and does not abort.
C11_OtherShapeOneDiag ==
    Query /\ OtherShape(call.expr) =>
        /\ Returned
        /\ is_error(result.node)
        /\ emitted = <<DiagNotAssignable>>

\* C11 (amended): for every expression of another shape, mir_lvalue returns
\* the Error node and does not abort; it emits exactly one diagnostic,
\* "<description> cannot be assigned to", when the initial type of the cast
\* chain is not the error type, and no diagnostic when it is the error type.
C11_OtherShape ==
    Query /\ OtherShape(call.expr) =>
        /\ Returned
        /\ result.node = error_node
        /\ emitted = IF is_error_ty(call.expr.cast.init) THEN <<>>
                      ELSE <<DiagNotAssignable>>

\* a function call with a well-typed chain was lowered and reported
C11_Witness ==
    /\ Query /\ OtherShape(call.expr)
    /\ ~is_error_ty(call.expr.cast.init)
    /\ Returned /\ is_error(result.node)
    /\ emitted = <<DiagNotAssignable>>

\* the type of the running value after each step of a chain applied to a
\* value of type ty
RECURSIVE RunTys(_, _)
RunTys(ty, casts) ==
    IF casts = <<>> THEN <<>>
    ELSE LET next == IF casts[1][1] = "PackSBVT" THEN simple_bit_vector(ty)
                     ELSE casts[1][2]
         IN  <<next>> \o RunTys(next, Tail(casts))

\* the type of the running value before step i
TyBefore(ty, casts, i) == IF i = 1 THEN ty ELSE RunTys(ty, casts)[i - 1]

\* lower_cast was called with a value and a chain that are not errors and
\* agree on the initial type, and every step of the chain can be applied
LowerCastRan ==
    /\ call.op = "lower_cast" /\ Done
    /\ ~is_error(call.value) /\ ~cast_is_error(call.to)
    /\ is_identical(call.value.ty, call.to.init)
    /\ \A i \in 1..Len(call.to.casts) :
          \/ call.to.casts[i][1] = "PickModport"
          \/ /\ call.to.casts[i][1] = "PackSBVT"
             /\ is_simple_bit_vector(call.to.casts[i][2])
             /\ get_bit_size(TyBefore(call.value.ty, call.to.casts, i)) >= 0

\* the steps after which the running type is not the step's target
MissedSteps ==
    {i \in 1..Len(call.to.casts) :
        ~is_identical(RunTys(call.value.ty, call.to.casts)[i], call.to.casts[i][2])}

\* the type of the running value after the whole chain
FinalRunTy ==
    IF call.to.casts = <<>> THEN call.value.ty
    ELSE RunTys(call.value.ty, call.to.casts)[Len(call.to.casts)]

FieldLowered ==
    /\ Query /\ call.expr.hir = "Expr" /\ call.expr.shape = "Field"
    /\ call.expr.cast.k = "cast" /\ ~is_error_ty(call.expr.cast.init)
    /\ call.expr.cast = PlainCast(call.expr.cast.init)
    /\ mir_lvalue(call.expr.target).st = "ok"

\* a chain of one PickModport step was applied by lower_cast
ModportPicked ==
    /\ LowerCastRan
    /\ Len(call.to.casts) = 1
    /\ call.to.casts[1] = <<"PickModport", call.to.ty>>

\* C13: modport selection adds no addressing layer: the node built for
\* target.name on an interface-typed target where name is a modport, and the
\* node built by a PickModport step, have the kind of the lowered target
\* (of the input value) and differ from it only in the type; on an
\* interface, any other name builds IntfSignal{value, member}; on a target
\* that is no interface the access builds Member{value, field: ordinal}.
C13_ModportNoLayer ==
    /\ FieldLowered =>
          LET e == call.expr
              target == mir_lvalue(e.target).node
          IN  /\ get_interface(e.target_ty) /\ e.hier = "modport" =>
                    /\ Returned
                    /\ kind_of(result.node) = kind_of(target)
                    /\ result.node = [target EXCEPT !.ty = e.cast.init]
              /\ get_interface(e.target_ty) /\ e.hier = "signal" =>
                    /\ Returned
                    /\ result.node = build(e.cast.init, KIntfSignal(target, e.member))
              /\ ~get_interface(e.target_ty) /\ e.field.k # "err" =>
                    /\ Returned
                    /\ result.node = build(e.cast.init, KMember(target, e.field.idx))
    /\ ModportPicked =>
          /\ Returned
          /\ kind_of(result.node) = kind_of(call.value)
          /\ result.node = [call.value EXCEPT !.ty = call.to.ty]

\* a modport of an interface port was selected by a field access
C13_Witness ==
    /\ FieldLowered
    /\ get_interface(call.expr.target_ty) /\ call.expr.hier = "modport"
    /\ Returned /\ result.node.kind = "Intf"
    /\ result.node.ty # mir_lvalue(call.expr.target).node.ty

\* a concatenation whose operands lower to flat nodes, whose
\* self-determined type is known and whose replication count, if there is
\* one, is a constant that is not negative
ConcatLowered ==
    /\ Query /\ call.expr.hir = "Expr" /\ call.expr.shape = "Concat"
    /\ call.expr.cast.k = "cast" /\ ~is_error_ty(call.expr.cast.init)
    /\ OperandsLowered(call.expr)
    /\ ~is_error_ty(call.expr.sdt)
    /\ call.expr.repeat.k = "none"
       \/ (call.expr.repeat.k = "count" /\ call.expr.repeat.n >= 0)

\* the Concat node of a source concatenation: the lowered operands in
\* source order, typed as the unsigned vector of the summed widths
ConcatOf(e) ==
    LET ops == [i \in 1..Len(e.exprs) |-> mir_lvalue(e.exprs[i]).node]
    IN  build(SbvTy(domain(e.sdt), "unsigned",
                    SumSeq([i \in 1..Len(e.exprs) |-> Width(ops[i])])),
              KConcat(ops))

\* the node that stands for the concatenation: the Concat, or its Repeat
ConcatNode(e) ==
    IF e.repeat.k = "none" THEN ConcatOf(e)
    ELSE build(e.sdt, KRepeat(e.repeat.n, ConcatOf(e)))

\* C14: lowering {e1,...,en} builds a Concat whose operands are the lowered
\* e1..en in source order and whose type is the unsigned flat vector of the
\* summed operand widths, with the domain of the self-determined type; with
\* a replication count n the result is Repeat{count: n, value: that Concat}
\* typed with the self-determined type, without one it is the Concat itself.
\* Scenario D: {a, b} with a:[3:0], b:[1:0] gives Concat([a, b]) of width 6.
C14_ConcatOrder ==
    /\ ConcatLowered =>
          LET e == call.expr IN
          /\ ConcatOf(e) \in built
          /\ ConcatNode(e) \in built
          /\ e.cast = PlainCast(ConcatNode(e).ty) =>
                Returned /\ result.node = ConcatNode(e)
          /\ Returned /\ e.cast.casts = <<>> => result.node = ConcatNode(e)
    /\ /\ ConcatLowered
       /\ call.expr.exprs = ScenarioOperands /\ call.expr.repeat.k = "none"
       => /\ Returned
          /\ result.node =
                build(Logic(5, 0),
                      KConcat(<< build(Logic(3, 0), KDecl("Var", "d1")),
                                 build(Logic(1, 0), KDecl("Var", "d2")) >>))

\* two operands of different widths were concatenated and replicated
C14_Witness ==
    /\ ConcatLowered
    /\ call.expr.exprs = ScenarioOperands
    /\ call.expr.repeat.k = "count"
    /\ Returned /\ result.node.kind = "Repeat"
    /\ result.node.value.kind = "Concat" /\ Width(result.node.value) = 6

\* the nesting depth of a type: the components around its flat vectors
RECURSIVE TypeDepth(_)
TypeDepth(t) ==
    CASE t.k \in {"arr", "unsized"} -> 1 + TypeDepth(t.elem)
      [] t.k = "struct" ->
            1 + Deepest({TypeDepth(t.members[i]) : i \in 1..Len(t.members)})
      [] OTHER -> 0

\* the height of an expression tree
RECURSIVE ExprDepth(_)
ExprDepth(e) ==
    CASE e.shape \in {"Index", "Field"} -> 1 + ExprDepth(e.target)
      [] e.shape = "Concat" ->
            1 + Deepest({ExprDepth(e.exprs[i]) : i \in 1..Len(e.exprs)})
      [] OTHER -> 1

\* C15: every call completes, with a node or with an abort on an internal
\* fault; the recursive mir_lvalue calls go to strict sub-expressions, so
\* their nesting is at most the height of the expression, and the recursive
\* pack_simple_bit_vector calls go to strict components of the type, so
\* their nesting is at most the nesting depth of the type (plus the call
\* itself).
C15_Terminates ==
    /\ <>Done
    /\ [](Done => result.st \in {"ok", "abort"})
    /\ [](Query => depth >= 1 /\ depth <= ExprDepth(call.expr))
    /\ [](Packed => depth >= 1 /\ depth <= 1 + TypeDepth(call.value.ty))

\* a type of nesting depth two was packed down to its vectors
C15_Witness ==
    /\ Packed /\ Returned
    /\ TypeDepth(call.value.ty) >= 2
    /\ depth = 1 + TypeDepth(call.value.ty)
    /\ \E n \in built : n.kind = "Member" /\ n.value.kind = "Member"

Top == stack[Len(stack)]

\* the token a lexer has just handed out
LastOf(lx) == Files(source)[lx.path][lx.pos - 1]

\* C17: after any sequence of next_token calls that does not panic the
\* lexer stack is not empty; an Eof is returned only when the stack holds
\* exactly one lexer (the Eof of an included file pops that file's lexer
\* and reading resumes in the including file: every lexer below the top
\* stands right behind the include of the file above it, and a token that
\* is returned is the one the top lexer has just read); Include and Define
\* tokens are consumed and never returned.
C17_LexerStack ==
    /\ returned # Panic => Len(stack) >= 1
    /\ returned = TEof => Len(stack) = 1 /\ Top.pos > Len(Files(source)[Top.path])
    /\ returned.k \notin {"Include", "Define"}
    /\ returned.k \in {"Ident", "LexErr"} => LastOf(Top) = returned
    /\ \A i \in 1..(Len(stack) - 1) :
          /\ stack[i].pos > 1
          /\ LastOf(stack[i]).k = "Include"
          /\ stack[i + 1].path \in
                {search_paths(stack[i].path, LastOf(stack[i]).filename)[j] : j \in 1..2}

\* the top file included a file that was read to its end, its lexer was
\* popped, and the Eof of the top file was returned
C17_Witness ==
    /\ returned = TEof
    /\ Len(stack) = 1
    /\ "M" \in DOMAIN macros
    /\ \E i \in 1..Len(source) : source[i] = TInclude("a.svh")

====
